---- MODULE Spec2Model ----
(***************************************************************************)
(* Model of TEASER's excel import example (zoning_example and              *)
(* import_building_from_excel) and of GroundFloor.retrofit_wall.           *)
(*                                                                         *)
(* A table cell is an optional value: NaN is the empty tuple, a present    *)
(* value v is the 1-tuple <<v>>.  A text cell held in a numeric column     *)
(* (an orientation such as "S") is the 2-tuple <<"str", s>>.  Areas are    *)
(* integers; an element's area is kept doubled (area2 = 2 * area) so that  *)
(* the halving of shared surfaces stays exact.                             *)
(***************************************************************************)
EXTENDS Integers, Sequences, FiniteSets, TLC

VARIABLES pc, raw, data, diags, zones, elements, todo, gf, calls

vars == <<pc, raw, data, diags, zones, elements, todo, gf, calls>>

importVars == <<pc, raw, data, diags, zones, elements, todo>>

retrofitVars == <<gf, calls>>

-----------------------------------------------------------------------------
(* Bounds of the model *)

MaxRows == 3

MaxGeomRows == 2

MinYear == 1970

MaxYear == 2020

MaxRetrofits == 1

-----------------------------------------------------------------------------
(* pandas / numpy cell helpers *)

NaN == <<>>

isna(x) == x = NaN

IsStr(x) == Len(x) = 2

nan0(x) == IF isna(x) THEN 0 ELSE x[1]

\* float addition: a missing operand makes the sum missing
NanAdd(x, y) == IF isna(x) \/ isna(y) THEN NaN ELSE <<x[1] + y[1]>>

\* float multiplication, as np.array(a) * np.array(b) does cell by cell
NanMul(x, y) == IF isna(x) \/ isna(y) THEN NaN ELSE <<x[1] * y[1]>>

RECURSIVE NanSumFrom(_, _, _, _)
NanSumFrom(t, rows, col, n) ==
    IF n > Len(rows) THEN 0
    ELSE nan0(t[rows[n]][col]) + NanSumFrom(t, rows, col, n + 1)

\* np.nansum over one column of a group of rows
NanSum(t, rows, col) == NanSumFrom(t, rows, col, 1)

RECURSIVE NanSumVolumeFrom(_, _, _)
NanSumVolumeFrom(t, rows, n) ==
    IF n > Len(rows) THEN 0
    ELSE nan0(NanMul(t[rows[n]]["NetArea"], t[rows[n]]["HeatedRoomHeight"]))
         + NanSumVolumeFrom(t, rows, n + 1)

SetCol(r, c, v) == [x \in (DOMAIN r) \cup {c} |-> IF x = c THEN v ELSE r[x]]

HasCol(t, c) == c \in DOMAIN t[1]

\* an assignment that reaches only the rows whose own identifier is the key
LocAssignByIdentifier(t, c, v, keycol, key) ==
    [i \in DOMAIN t |->
        IF t[i]["RoomIdentifier"] = key THEN SetCol(t[i], c, v)
        ELSE IF c \in DOMAIN t[i] THEN t[i] ELSE SetCol(t[i], c, NaN)]

\* data.loc[i, c] = v on the rows whose column keycol holds key; when the
\* column c is new the other rows get NaN
LocAssign(t, c, v, keycol, key) ==
    [i \in DOMAIN t |->
        IF t[i][keycol] = key THEN SetCol(t[i], c, v)
        ELSE IF c \in DOMAIN t[i] THEN t[i] ELSE SetCol(t[i], c, NaN)]

Indices(t) == [i \in 1 .. Len(t) |-> i]

-----------------------------------------------------------------------------
(* Input tables: what import_data hands to zoning_example *)

Ident(id, bt, us) ==
    [RoomIdentifier |-> <<id>>, BelongsToIdentifier |-> bt, UsageType |-> us]

Geom(na, h, adj, owo, owa, owc, wo, wa, wc, igf, fc, irt, cc, iwa, iwc) ==
    [NetArea |-> na, HeatedRoomHeight |-> h, WallAdjacentTo |-> adj,
     OuterWallOrientation |-> owo, OuterWallArea |-> owa,
     OuterWallConstruction |-> owc,
     WindowOrientation |-> wo, WindowArea |-> wa, WindowConstruction |-> wc,
     IsGroundFloor |-> igf, FloorConstruction |-> fc,
     IsRooftop |-> irt, CeilingConstruction |-> cc,
     InnerWallArea |-> iwa, InnerWallConstruction |-> iwc]

\* a room on the ground, one outer wall and one window facing east
RoomRow ==
    Geom(<<4>>, <<3>>, NaN, <<90>>, <<8>>, <<"Brick">>, <<90>>, <<2>>, <<"Glass">>,
         <<1>>, <<"heavy">>, <<0>>, <<"heavy">>, <<3>>, <<"light">>)

\* a further orientation of a room: only envelope geometry
OrientationRow ==
    Geom(NaN, NaN, NaN, <<180>>, <<5>>, <<"Brick">>, NaN, NaN, NaN,
         NaN, NaN, NaN, NaN, NaN, NaN)

GeomProfiles ==
    { RoomRow,
      OrientationRow,
      \* an upper room under the roof, wall facing south
      Geom(<<6>>, <<3>>, NaN, <<180>>, <<5>>, <<"Brick">>, <<180>>, <<1>>, <<"Glass">>,
           <<0>>, <<"heavy">>, <<1>>, <<"heavy">>, <<3>>, <<"light">>),
      \* the wall is shared with another conditioned zone
      Geom(<<4>>, <<3>>, <<"Z">>, <<90>>, <<8>>, <<"Brick">>, <<90>>, <<2>>, <<"Glass">>,
           <<1>>, <<"heavy">>, <<0>>, <<"heavy">>, <<3>>, <<"light">>),
      \* shared wall without a window, room height not entered
      Geom(<<4>>, NaN, <<"Z">>, <<90>>, <<8>>, <<"Brick">>, NaN, NaN, NaN,
           <<0>>, <<"heavy">>, <<0>>, <<"heavy">>, <<3>>, <<"light">>),
      \* orientation typed as text, flags that are neither 0 nor 1
      Geom(<<4>>, <<3>>, NaN, <<"str", "S">>, <<8>>, <<"Brick">>, <<"str", "S">>, <<2>>,
           <<"Glass">>, <<2>>, <<"heavy">>, <<2>>, <<"heavy">>, <<3>>, <<"light">>),
      \* negative area entries
      Geom(<<-4>>, <<3>>, NaN, <<90>>, <<-8>>, <<"Brick">>, <<90>>, <<-2>>, <<"Glass">>,
           <<1>>, <<"heavy">>, <<0>>, <<"heavy">>, <<-3>>, <<"light">>),
      \* zero area entries
      Geom(<<0>>, <<3>>, NaN, <<90>>, <<0>>, <<"Brick">>, <<90>>, <<0>>, <<"Glass">>,
           <<0>>, <<"heavy">>, <<1>>, <<"heavy">>, <<0>>, <<"light">>),
      \* constructions the catalog does not hold
      Geom(<<4>>, <<3>>, NaN, <<90>>, <<8>>, <<"Brick">>, <<90>>, <<2>>, <<"bogus">>,
           <<1>>, <<"bogus">>, <<0>>, <<"heavy">>, <<3>>, <<"bogus">>),
      Geom(<<4>>, <<3>>, NaN, <<180>>, <<8>>, <<"bogus">>, NaN, NaN, NaN,
           <<0>>, <<"heavy">>, <<1>>, <<"bogus">>, NaN, NaN) }

Row(id, geom) == id @@ geom

\* rows that vary the room identity, the back-reference and the usage label:
\* rooms of their own, further orientations that refer to a room, and a row
\* that refers to such a further orientation (R3 -> R2 -> R1)
IdentRows ==
    { Row(Ident("R1", NaN, us), RoomRow) : us \in {NaN, <<"Office">>, <<"WC">>} }
    \cup { Row(Ident("R2", NaN, us), RoomRow) : us \in {NaN, <<"Lounge">>, <<"Kitchen">>} }
    \cup { Row(Ident("R2", <<"R1">>, us), OrientationRow) : us \in {NaN, <<"Office">>} }
    \cup { Row(Ident("R3", <<"R2">>, NaN), OrientationRow) }

\* rows that vary the geometry
GeomRows ==
    { Row(id, g) :
        id \in { Ident("R1", NaN, <<"Office">>), Ident("R2", NaN, <<"WC">>) },
        g \in GeomProfiles }

SeqsUpTo(S, n) == UNION { [1 .. k -> S] : k \in 1 .. n }

Tables == SeqsUpTo(IdentRows, MaxRows) \cup SeqsUpTo(GeomRows, MaxGeomRows)

-----------------------------------------------------------------------------
(* zoning_example *)

\* a reclassification that forgets the window area
ReclassifyRowWithoutWindow(line) ==
    IF ~ isna(line["WallAdjacentTo"])
    THEN [line EXCEPT
            !["InnerWallArea"] = NanAdd(line["OuterWallArea"], line["InnerWallArea"]),
            !["WindowOrientation"] = NaN,
            !["WindowArea"] = NaN,
            !["WindowConstruction"] = NaN,
            !["OuterWallOrientation"] = NaN,
            !["OuterWallArea"] = NaN,
            !["OuterWallConstruction"] = NaN]
    ELSE line

\* lines 166-178, one row
ReclassifyRow(line) ==
    IF ~ isna(line["WallAdjacentTo"])
    THEN [line EXCEPT
            !["InnerWallArea"] =
                NanAdd(NanAdd(line["OuterWallArea"], line["WindowArea"]),
                       line["InnerWallArea"]),
            !["WindowOrientation"] = NaN,
            !["WindowArea"] = NaN,
            !["WindowConstruction"] = NaN,
            !["OuterWallOrientation"] = NaN,
            !["OuterWallArea"] = NaN,
            !["OuterWallConstruction"] = NaN]
    ELSE line

\* a key that ignores the back-reference
ClusterKeyOwnIdentifier(line) == line["RoomIdentifier"]

\* lines 182-186, one row
ClusterKey(line) ==
    IF isna(line["BelongsToIdentifier"]) THEN line["RoomIdentifier"]
    ELSE line["BelongsToIdentifier"]

Diag(code, zone, subject, rows) ==
    [code |-> code, zone |-> zone, subject |-> subject, rows |-> rows]

\* line 195: the comparison with np.nan is False for every value
NetAreaSuspicious(row) ==
    (row["NetArea"] = <<0>> \/ FALSE) /\ ~ isna(row["UsageType"])

RECURSIVE NetAreaWarnings(_, _)
NetAreaWarnings(t, i) ==
    IF i > Len(t) THEN <<>>
    ELSE (IF NetAreaSuspicious(t[i])
          THEN <<Diag("net_area_zero", "", <<i>>, {i})>> ELSE <<>>)
         \o NetAreaWarnings(t, i + 1)

\* the keys of data.groupby(["RoomCluster"]) in sorted order
RoomIdOrder == <<"R1", "R2">>

ClusterRows(t, key) ==
    SelectSeq(Indices(t), LAMBDA i : t[i]["RoomCluster"] = <<key>>)

\* line 210
Qualifies(line) ==
    isna(line["BelongsToIdentifier"]) /\ ~ isna(line["UsageType"])

\* a loop that keeps the first usage found instead of overwriting it
RECURSIVE ClusterLinesKeepFirst(_, _, _, _)
ClusterLinesKeepFirst(st, cluster, key, n) ==
    IF n > Len(cluster) THEN st
    ELSE LET line == st.data[cluster[n]] IN
         IF isna(line["BelongsToIdentifier"]) /\ ~ isna(line["UsageType"])
         THEN ClusterLinesKeepFirst(
                [data |-> IF st.count = 0
                          THEN LocAssign(st.data, "RoomClusterUsage", line["UsageType"],
                                         "RoomCluster", <<key>>)
                          ELSE st.data,
                 count |-> st.count + 1],
                cluster, key, n + 1)
         ELSE ClusterLinesKeepFirst(st, cluster, key, n + 1)

\* lines 209-217: the lines of one cluster in table order
RECURSIVE ClusterLines(_, _, _, _)
ClusterLines(st, cluster, key, n) ==
    IF n > Len(cluster) THEN st
    ELSE LET line == st.data[cluster[n]] IN
         IF Qualifies(line)
         THEN ClusterLines(
                [data |-> LocAssign(st.data, "RoomClusterUsage", line["UsageType"],
                                    "RoomCluster", <<key>>),
                 count |-> st.count + 1],
                cluster, key, n + 1)
         ELSE ClusterLines(st, cluster, key, n + 1)

\* a check that misses the Room without any usage
CountIsWrongOnlyAbove(count) == count > 1

\* line 218
CountIsWrong(count) == count # 1

\* lines 207-232
RECURSIVE ClusterLoop(_, _)
ClusterLoop(st, k) ==
    IF k > Len(RoomIdOrder) THEN st
    ELSE LET key == RoomIdOrder[k]
             cluster == ClusterRows(st.data, key)
         IN IF cluster = <<>> THEN ClusterLoop(st, k + 1)
            ELSE LET r == ClusterLines([data |-> st.data, count |-> 0], cluster, key, 1)
                 IN ClusterLoop(
                      [data |-> r.data,
                       diags |-> IF CountIsWrong(r.count)
                                 THEN Append(st.diags,
                                        Diag("cluster_usage", "", <<key>>,
                                             {cluster[j] : j \in DOMAIN cluster}))
                                 ELSE st.diags],
                      k + 1)

\* lines 235-249
usage_to_json_usage ==
    [u \in {"IsolationRoom", "PatientRoom", "Aisle", "Technical room", "Washing",
            "Stairway", "WC", "Storage", "Lounge", "Office", "Treatment room",
            "StorageChemical", "EquipmentServiceAndRinse"} |->
        CASE u \in {"IsolationRoom", "PatientRoom"} -> "Bed room"
          [] u \in {"Aisle", "Stairway"} -> "Corridors in the general care area"
          [] u \in {"Technical room", "Storage", "StorageChemical"} ->
                "Stock, technical equipment, archives"
          [] u \in {"Washing", "WC", "EquipmentServiceAndRinse"} ->
                "WC and sanitary rooms in non-residential buildings"
          [] u \in {"Lounge", "Office"} -> "Meeting, Conference, seminar"
          [] u = "Treatment room" -> "Examination- or treatment room"]

\* lines 127-133
RECURSIVE PresentEntries(_, _, _)
PresentEntries(list, n, acc) ==
    IF n > Len(list) THEN acc
    ELSE IF (\A j \in DOMAIN acc : acc[j] # list[n]) /\ ~ isna(list[n])
         THEN PresentEntries(list, n + 1, Append(acc, list[n]))
         ELSE PresentEntries(list, n + 1, acc)

get_list_of_present_entries(list) == PresentEntries(list, 1, <<>>)

Column(t, c) == [i \in DOMAIN t |-> t[i][c]]

\* lines 255-260: st.error is set by the KeyError of the dictionary lookup
RECURSIVE RenameLoop(_, _, _)
RenameLoop(st, usages, n) ==
    IF n > Len(usages) \/ st.error THEN st
    ELSE LET usage == usages[n][1] IN
         IF usage \notin DOMAIN usage_to_json_usage
         THEN [st EXCEPT !.error = TRUE]
         ELSE RenameLoop(
                [st EXCEPT !.data =
                    [i \in DOMAIN st.data |->
                        IF st.data[i]["RoomClusterUsage"] = usages[n]
                        THEN SetCol(st.data[i], "UsageType_Teaser",
                                    usage_to_json_usage[usage])
                        ELSE st.data[i]]],
                usages, n + 1)

\* lines 253-263; error stands for the KeyError that ends the run
MapUsage(t) ==
    IF ~ HasCol(t, "RoomClusterUsage")
    THEN [data |-> t, error |-> TRUE]
    ELSE LET usages == get_list_of_present_entries(Column(t, "RoomClusterUsage"))
             blank == [i \in DOMAIN t |-> SetCol(t[i], "UsageType_Teaser", "")]
             r == RenameLoop([data |-> blank, error |-> FALSE], usages, 1)
         IN IF r.error THEN r
            ELSE [data |-> [i \in DOMAIN t |->
                              SetCol(r.data[i], "Zone", r.data[i]["UsageType_Teaser"])],
                  error |-> FALSE]

-----------------------------------------------------------------------------
(* import_building_from_excel *)

\* the keys of data.groupby(["Zone"]) in sorted order
ZoneOrder ==
    <<"", "Bed room", "Corridors in the general care area",
      "Examination- or treatment room", "Meeting, Conference, seminar",
      "Stock, technical equipment, archives",
      "WC and sanitary rooms in non-residential buildings">>

ZoneRows(t, name) == SelectSeq(Indices(t), LAMBDA i : t[i]["Zone"] = name)

ZoneNames(t) == SelectSeq(ZoneOrder, LAMBDA z : ZoneRows(t, z) # <<>>)

\* the keys of the usage-condition catalog
UseConditionsCatalog == {usage_to_json_usage[u] : u \in DOMAIN usage_to_json_usage}

\* the names the construction-type catalog holds for the building's year
ConstructionCatalog == {"Brick", "Glass", "heavy", "light"}

\* BuildingElement.load_type_element: construction_type stays None on a miss
load_type_element(construction) ==
    IF construction[1] \in ConstructionCatalog THEN construction ELSE NaN

\* a zone whose volume is the summed area times the summed height
ThermalZoneVolumeOfSums(t, name, zrows) ==
    [name |-> name,
     area |-> NanSum(t, zrows, "NetArea"),
     volume |-> NanSum(t, zrows, "NetArea") * NanSum(t, zrows, "HeatedRoomHeight"),
     use_conditions |-> IF name \in UseConditionsCatalog THEN <<name>> ELSE NaN]

\* a zone that takes area and volume from its first row only
ThermalZoneFirstRow(t, name, zrows) ==
    [name |-> name,
     area |-> nan0(t[zrows[1]]["NetArea"]),
     volume |-> nan0(NanMul(t[zrows[1]]["NetArea"], t[zrows[1]]["HeatedRoomHeight"])),
     use_conditions |-> IF name \in UseConditionsCatalog THEN <<name>> ELSE NaN]

\* lines 367-381
ThermalZone(t, name, zrows) ==
    [name |-> name,
     area |-> NanSum(t, zrows, "NetArea"),
     volume |-> NanSumVolumeFrom(t, zrows, 1),
     use_conditions |-> IF name \in UseConditionsCatalog THEN <<name>> ELSE NaN]

\* sorted values of the grouping columns
OrientationOrder == <<<<90>>, <<180>>, <<"str", "S">>>>

FlagOrder == <<<<0>>, <<1>>, <<2>>>>

ConstructionOrder == <<<<"Brick">>, <<"Glass">>, <<"bogus">>, <<"heavy">>, <<"light">>>>

\* the pairs of values of two columns, sorted
KeyPairs(o1, o2) ==
    [n \in 1 .. Len(o1) * Len(o2) |->
        <<o1[((n - 1) \div Len(o2)) + 1], o2[((n - 1) % Len(o2)) + 1]>>]

\* the keys of zone.groupby([c1, c2]): the pairs that occur in a row, sorted
GroupKeys(t, zrows, c1, c2, o1, o2) ==
    LET present == { <<t[zrows[j]][c1], t[zrows[j]][c2]>> : j \in DOMAIN zrows }
    IN SelectSeq(KeyPairs(o1, o2), LAMBDA k : k \in present)

\* the rows of one group; a row with NaN in a grouping column is in no group
GroupRows(t, zrows, c1, c2, key) ==
    SelectSeq(zrows, LAMBDA i : t[i][c1] = key[1] /\ t[i][c2] = key[2])

Element(zone, kind, name, area2, tilt, orientation, construction) ==
    [zone |-> zone, kind |-> kind, name |-> name, area2 |-> area2, tilt |-> tilt,
     orientation |-> orientation, construction |-> construction,
     construction_type |-> load_type_element(construction)]

\* lines 294-309: group is the group of the loop that called it
warn_constructiontype(t, element, group) ==
    IF isna(element.construction_type)
    THEN <<Diag("construction", t[group[1]]["Zone"],
                <<element.name, t[group[1]]["OuterWallConstruction"]>>,
                {group[j] : j \in DOMAIN group})>>
    ELSE <<>>

AddElement(t, acc, element, group) ==
    [elements |-> Append(acc.elements, element),
     diags |-> acc.diags \o warn_constructiontype(t, element, group)]

AddDiag(acc, d) == [acc EXCEPT !.diags = Append(acc.diags, d)]

\* a test that lets a summed area of 0 through
HasAreaOrZero(sum) == sum >= 0

\* line 394 and line 435
HasArea(sum) == sum > 0

\* lines 392-425 (kind "OuterWall") and lines 433-466 (kind "Window")
WallGroup(t, acc, group, kind, prefix, ocol, acol, ccol) ==
    LET first == t[group[1]] IN
    IF ~ IsStr(first[ocol])
    THEN IF HasArea(NanSum(t, group, acol))
         THEN AddElement(t, acc,
                Element(first["Zone"], kind, <<prefix, first[ocol][1], first[ccol][1]>>,
                        2 * NanSum(t, group, acol), <<90>>, first[ocol], first[ccol]),
                group)
         ELSE acc
    ELSE AddDiag(acc, Diag("orientation", first["Zone"], <<kind, first[ocol]>>,
                           {group[j] : j \in DOMAIN group}))

\* line 470, 517 and 566
NonZero(sum) == sum # 0

\* line 476 and 521
FullArea2(sum) == 2 * sum

\* a shared surface counted in full
HalfArea2NotHalved(sum) == 2 * sum

\* line 488, 536 and 571: only half of the surface belongs to the zone
HalfArea2(sum) == sum

\* a floor block that takes every flag other than 1 for 0
FlagGroupLenient(t, acc, group, k) ==
    LET first == t[group[1]]
        sum == NanSum(t, group, "NetArea")
    IN IF NonZero(sum)
       THEN IF first[k.flagcol] = <<1>>
            THEN AddElement(t, acc,
                   Element(first["Zone"], k.fullKind,
                           <<k.fullPrefix, first[k.ccol][1]>>,
                           FullArea2(sum), <<0>>, <<k.sentinel>>, first[k.ccol]),
                   group)
            ELSE AddDiag(AddElement(t, acc,
                           Element(first["Zone"], k.halfKind,
                                   <<k.halfPrefix, first[k.ccol][1]>>,
                                   HalfArea2(sum), <<0>>, <<k.sentinel>>, first[k.ccol]),
                           group),
                         Diag("flag", "", <<k.flagcol>>, {}))
       ELSE AddDiag(acc, Diag("zero_area", first["Zone"],
                              <<k.flagcol, first[k.flagcol], first[k.ccol]>>, {}))

\* lines 470-513 (GroundFloor / Floor) and lines 517-562 (Rooftop / Ceiling);
\* k names the flag and construction columns and the two kinds
FlagGroup(t, acc, group, k) ==
    LET first == t[group[1]]
        sum == NanSum(t, group, "NetArea")
    IN IF NonZero(sum)
       THEN IF first[k.flagcol] = <<1>>
            THEN AddElement(t, acc,
                   Element(first["Zone"], k.fullKind,
                           <<k.fullPrefix, first[k.ccol][1]>>,
                           FullArea2(sum), <<0>>, <<k.sentinel>>, first[k.ccol]),
                   group)
            ELSE IF first[k.flagcol] = <<0>>
            THEN AddElement(t, acc,
                   Element(first["Zone"], k.halfKind,
                           <<k.halfPrefix, first[k.ccol][1]>>,
                           HalfArea2(sum), <<0>>, <<k.sentinel>>, first[k.ccol]),
                   group)
            ELSE AddDiag(acc, Diag("flag", "", <<k.flagcol>>, {}))
       ELSE AddDiag(acc, Diag("zero_area", first["Zone"],
                              <<k.flagcol, first[k.flagcol], first[k.ccol]>>, {}))

\* lines 566-585
InnerWallGroup(t, acc, group) ==
    LET first == t[group[1]]
        sum == NanSum(t, group, "InnerWallArea")
    IN IF NonZero(sum)
       THEN AddElement(t, acc,
              Element(first["Zone"], "InnerWall",
                      <<"inner_wall", first["InnerWallConstruction"][1]>>,
                      HalfArea2(sum), NaN, NaN, first["InnerWallConstruction"]),
              group)
       ELSE AddDiag(acc, Diag("zero_area", first["Zone"],
                              <<"InnerWall", first["InnerWallConstruction"]>>, {}))

\* lines 386-387 and 427-428: the groups of one kind, in key order
RECURSIVE WallLoop(_, _, _, _, _, _, _, _, _, _)
WallLoop(t, zrows, acc, keys, n, kind, prefix, ocol, acol, ccol) ==
    IF n > Len(keys) THEN acc
    ELSE WallLoop(t, zrows,
                  WallGroup(t, acc, GroupRows(t, zrows, ocol, ccol, keys[n]),
                            kind, prefix, ocol, acol, ccol),
                  keys, n + 1, kind, prefix, ocol, acol, ccol)

\* lines 468-469 and 515-516
RECURSIVE FlagLoop(_, _, _, _, _, _)
FlagLoop(t, zrows, acc, keys, n, k) ==
    IF n > Len(keys) THEN acc
    ELSE FlagLoop(t, zrows,
                  FlagGroup(t, acc, GroupRows(t, zrows, k.flagcol, k.ccol, keys[n]), k),
                  keys, n + 1, k)

\* lines 334-343 and the names of lines 472-487
FloorKinds ==
    [flagcol |-> "IsGroundFloor", ccol |-> "FloorConstruction",
     fullKind |-> "GroundFloor", fullPrefix |-> "ground_floor",
     halfKind |-> "Floor", halfPrefix |-> "floor", sentinel |-> -2]

\* lines 334-343 and the names of lines 519-535
CeilingKinds ==
    [flagcol |-> "IsRooftop", ccol |-> "CeilingConstruction",
     fullKind |-> "Rooftop", fullPrefix |-> "rooftop",
     halfKind |-> "Ceiling", halfPrefix |-> "ceiling", sentinel |-> -1]

\* lines 564-565
RECURSIVE InnerWallLoop(_, _, _, _)
InnerWallLoop(t, zrows, acc, n) ==
    IF n > Len(ConstructionOrder) THEN acc
    ELSE LET group == SelectSeq(zrows, LAMBDA i :
                         t[i]["InnerWallConstruction"] = ConstructionOrder[n]) IN
         InnerWallLoop(t, zrows,
                       IF group = <<>> THEN acc ELSE InnerWallGroup(t, acc, group),
                       n + 1)

\* lines 589-596
ahu_dict ==
    {"Bedroom", "Corridorsinthegeneralcarearea", "Examinationortreatmentroom",
     "MeetingConferenceseminar", "Stocktechnicalequipmentarchives",
     "WCandsanitaryroomsinnonresidentialbuildings"}

\* lines 597-608
AhuWarning(name) ==
    IF name \in ahu_dict THEN <<>> ELSE <<Diag("ahu", name, <<>>, {})>>

\* lines 383-608: the elements and diagnostics of one zone
ZoneElements(t, name, zrows) ==
    LET a0 == [elements |-> <<>>, diags |-> <<>>]
        a1 == WallLoop(t, zrows, a0,
                       GroupKeys(t, zrows, "OuterWallOrientation",
                                 "OuterWallConstruction", OrientationOrder,
                                 ConstructionOrder),
                       1, "OuterWall", "outer_wall", "OuterWallOrientation",
                       "OuterWallArea", "OuterWallConstruction")
        a2 == WallLoop(t, zrows, a1,
                       GroupKeys(t, zrows, "WindowOrientation", "WindowConstruction",
                                 OrientationOrder, ConstructionOrder),
                       1, "Window", "window", "WindowOrientation",
                       "WindowArea", "WindowConstruction")
        a3 == FlagLoop(t, zrows, a2,
                       GroupKeys(t, zrows, "IsGroundFloor", "FloorConstruction",
                                 FlagOrder, ConstructionOrder),
                       1, FloorKinds)
        a4 == FlagLoop(t, zrows, a3,
                       GroupKeys(t, zrows, "IsRooftop", "CeilingConstruction",
                                 FlagOrder, ConstructionOrder),
                       1, CeilingKinds)
        a5 == InnerWallLoop(t, zrows, a4, 1)
    IN [a5 EXCEPT !.diags = a5.diags \o AhuWarning(name)]

\* lines 364-608: one zone; load_use_conditions ends the run when the zone's
\* name is no key of the usage-condition catalog
ZoneStep(t, name, st) ==
    LET zrows == ZoneRows(t, name)
        tz == ThermalZone(t, name, zrows)
        r == ZoneElements(t, name, zrows)
    IN IF isna(tz.use_conditions)
       THEN [st EXCEPT !.zones = Append(st.zones, tz), !.aborted = TRUE]
       ELSE [zones |-> Append(st.zones, tz),
             elements |-> st.elements \o r.elements,
             diags |-> st.diags \o r.diags,
             aborted |-> FALSE]

RECURSIVE ZoneLoop(_, _, _, _)
ZoneLoop(t, names, n, st) ==
    IF n > Len(names) \/ st.aborted THEN st
    ELSE ZoneLoop(t, names, n + 1, ZoneStep(t, names[n], st))

\* lines 347-610 on one table: zoning_example, then the loop over the zones
import_building_from_excel(table) ==
    LET d1 == [i \in DOMAIN table |-> ReclassifyRow(table[i])]
        d2 == [i \in DOMAIN d1 |-> SetCol(d1[i], "RoomCluster", ClusterKey(d1[i]))]
        w == NetAreaWarnings(d2, 1)
        r == ClusterLoop([data |-> d2, diags |-> w], 1)
        m == MapUsage(r.data)
    IN IF m.error
       THEN [zones |-> <<>>, elements |-> <<>>, diags |-> r.diags, aborted |-> TRUE]
       ELSE ZoneLoop(m.data, ZoneNames(m.data), 1,
                     [zones |-> <<>>, elements |-> <<>>, diags |-> r.diags,
                      aborted |-> FALSE])

-----------------------------------------------------------------------------
(* GroundFloor.retrofit_wall; U-values are kept in tenths of W/(m2 K) *)

DefaultInsulation == "EPS_perimeter_insulation_top_layer"

Materials == {NaN, <<"XPS">>}

Years == MinYear .. MaxYear

\* Wall.initialize_retrofit: the default material, and the year is checked
initialize_retrofit(material, year_of_retrofit) ==
    [material |-> IF isna(material) THEN <<DefaultInsulation>> ELSE material,
     year_of_retrofit |-> year_of_retrofit,
     error |-> IF year_of_retrofit < 1977 THEN <<"InvalidYear">> ELSE NaN]

\* a band table whose second band ends one year early
TargetUWithGap(year_of_retrofit) ==
    IF 1977 <= year_of_retrofit /\ year_of_retrofit <= 1981 THEN <<8>>
    ELSE IF 1982 <= year_of_retrofit /\ year_of_retrofit < 1994 THEN <<7>>
    ELSE IF 1995 <= year_of_retrofit /\ year_of_retrofit <= 2001 THEN <<5>>
    ELSE IF 2002 <= year_of_retrofit /\ year_of_retrofit <= 2008 THEN <<4>>
    ELSE IF 2009 <= year_of_retrofit /\ year_of_retrofit <= 2013 THEN <<3>>
    ELSE IF year_of_retrofit >= 2014 THEN <<3>>
    ELSE NaN

\* lines 144-157
TargetU(year_of_retrofit) ==
    IF 1977 <= year_of_retrofit /\ year_of_retrofit <= 1981 THEN <<8>>
    ELSE IF 1982 <= year_of_retrofit /\ year_of_retrofit <= 1994 THEN <<7>>
    ELSE IF 1995 <= year_of_retrofit /\ year_of_retrofit <= 2001 THEN <<5>>
    ELSE IF 2002 <= year_of_retrofit /\ year_of_retrofit <= 2008 THEN <<4>>
    ELSE IF 2009 <= year_of_retrofit /\ year_of_retrofit <= 2013 THEN <<3>>
    ELSE IF year_of_retrofit >= 2014 THEN <<3>>
    ELSE NaN

\* Wall.set_insulation: the layer sized for the target U-value is appended
set_insulation(layer, material, calc_u, year_of_retrofit) ==
    IF isna(calc_u) THEN layer
    ELSE Append(layer, [material |-> material[1], target_u |-> calc_u[1],
                        year |-> year_of_retrofit])

\* a retrofit that goes on after initialize_retrofit has failed
retrofit_wall_unchecked(layer, year_of_retrofit, material) ==
    LET init == initialize_retrofit(material, year_of_retrofit)
        calc_u == TargetU(init.year_of_retrofit)
    IN [layer |-> set_insulation(layer, init.material, calc_u, init.year_of_retrofit),
        call |-> [year |-> year_of_retrofit, material |-> material,
                  outcome |-> "ok",
                  insulation |-> <<[material |-> init.material, calc_u |-> calc_u,
                                    year_of_retrofit |-> init.year_of_retrofit]>>]]

\* lines 141-159: the layer stack and the record of the call
retrofit_wall(layer, year_of_retrofit, material) ==
    LET init == initialize_retrofit(material, year_of_retrofit) IN
    IF ~ isna(init.error)
    THEN [layer |-> layer,
          call |-> [year |-> year_of_retrofit, material |-> material,
                    outcome |-> init.error[1], insulation |-> NaN]]
    ELSE LET calc_u == TargetU(init.year_of_retrofit) IN
         [layer |-> set_insulation(layer, init.material, calc_u,
                                   init.year_of_retrofit),
          call |-> [year |-> year_of_retrofit, material |-> material,
                    outcome |-> "ok",
                    insulation |-> <<[material |-> init.material, calc_u |-> calc_u,
                                      year_of_retrofit |-> init.year_of_retrofit]>>]]

InitialLayers ==
    { <<>>, <<[material |-> "concrete", target_u |-> 0, year |-> 0]>> }

-----------------------------------------------------------------------------
(* The import run *)

RetrofitIdle == gf = [layer |-> <<>>] /\ calls = <<>>

Init ==
    /\ raw \in Tables
    /\ data = raw
    /\ pc = "reclassify"
    /\ diags = <<>>
    /\ zones = <<>>
    /\ elements = <<>>
    /\ todo = <<>>
    /\ RetrofitIdle

\* lines 166-178
Reclassify ==
    /\ pc = "reclassify"
    /\ data' = [i \in DOMAIN data |-> ReclassifyRow(data[i])]
    /\ pc' = "cluster"
    /\ UNCHANGED <<raw, diags, zones, elements, todo, retrofitVars>>

\* lines 181-187
Cluster ==
    /\ pc = "cluster"
    /\ data' = [i \in DOMAIN data |-> SetCol(data[i], "RoomCluster", ClusterKey(data[i]))]
    /\ pc' = "check_net_area"
    /\ UNCHANGED <<raw, diags, zones, elements, todo, retrofitVars>>

\* lines 194-203
CheckNetArea ==
    /\ pc = "check_net_area"
    /\ diags' = diags \o NetAreaWarnings(data, 1)
    /\ pc' = "resolve_usage"
    /\ UNCHANGED <<raw, data, zones, elements, todo, retrofitVars>>

\* lines 206-232
ResolveUsage ==
    /\ pc = "resolve_usage"
    /\ LET r == ClusterLoop([data |-> data, diags |-> diags], 1) IN
        /\ data' = r.data
        /\ diags' = r.diags
    /\ pc' = "map_usage"
    /\ UNCHANGED <<raw, zones, elements, todo, retrofitVars>>

\* lines 253-265 and the grouping of line 363
RenameUsage ==
    /\ pc = "map_usage"
    /\ LET r == MapUsage(data) IN
        /\ data' = r.data
        /\ pc' = IF r.error THEN "aborted" ELSE "zones"
        /\ todo' = IF r.error THEN <<>> ELSE ZoneNames(r.data)
    /\ UNCHANGED <<raw, diags, zones, elements, retrofitVars>>

\* lines 364-608, one pass of the loop over the zones
ProcessZone ==
    /\ pc = "zones"
    /\ todo # <<>>
    /\ LET r == ZoneStep(data, Head(todo),
                         [zones |-> zones, elements |-> elements, diags |-> diags,
                          aborted |-> FALSE])
       IN /\ zones' = r.zones
          /\ elements' = r.elements
          /\ diags' = r.diags
          /\ pc' = IF r.aborted THEN "aborted" ELSE pc
          /\ todo' = IF r.aborted THEN todo ELSE Tail(todo)
    /\ UNCHANGED <<raw, data, retrofitVars>>

\* line 610
Finish ==
    /\ pc = "zones"
    /\ todo = <<>>
    /\ pc' = "done"
    /\ UNCHANGED <<raw, data, diags, zones, elements, todo, retrofitVars>>

Next ==
    \/ Reclassify
    \/ Cluster
    \/ CheckNetArea
    \/ ResolveUsage
    \/ RenameUsage
    \/ ProcessZone
    \/ Finish

Spec == Init /\ [][Next]_vars

-----------------------------------------------------------------------------
(* Retrofits of one ground floor element *)

RetrofitInit ==
    /\ pc = "idle"
    /\ raw = <<>>
    /\ data = <<>>
    /\ diags = <<>>
    /\ zones = <<>>
    /\ elements = <<>>
    /\ todo = <<>>
    /\ gf \in {[layer |-> l] : l \in InitialLayers}
    /\ calls = <<>>

\* lines 120-159
RetrofitWall ==
    /\ Len(calls) < MaxRetrofits
    /\ \E year \in Years, material \in Materials :
         LET r == retrofit_wall(gf.layer, year, material) IN
            /\ gf' = [gf EXCEPT !.layer = r.layer]
            /\ calls' = Append(calls, r.call)
    /\ UNCHANGED importVars

RetrofitNext == RetrofitWall

RetrofitSpec == RetrofitInit /\ [][RetrofitNext]_vars

-----------------------------------------------------------------------------
(* Properties *)

\* the usage loop of zoning_example has run
UsageResolved == pc \in {"map_usage", "zones", "done", "aborted"}

\* the records of the input that are authoritative for the Room with key k:
\* no back-reference and a usage label
Authoritative(k) ==
    { i \in DOMAIN raw :
        /\ data[i]["RoomCluster"] = k
        /\ isna(raw[i]["BelongsToIdentifier"])
        /\ ~ isna(raw[i]["UsageType"]) }

UsageDiagnostics(k) ==
    { j \in DOMAIN diags : diags[j].code = "cluster_usage" /\ diags[j].subject = k }

\* C1: for every Room, zoning_example emits the usage diagnostic exactly once
\* when the number of its authoritative records differs from 1, and never when
\* that number is 1.
C1_UsageDiagnosticOncePerOffendingRoom ==
    UsageResolved =>
        \A i \in DOMAIN data :
            LET k == data[i]["RoomCluster"] IN
            Cardinality(UsageDiagnostics(k)) =
                IF Cardinality(Authoritative(k)) # 1 THEN 1 ELSE 0

C1_Witness ==
    /\ UsageResolved
    /\ \E i, j \in DOMAIN data :
         /\ Cardinality(Authoritative(data[i]["RoomCluster"])) = 2
         /\ Cardinality(UsageDiagnostics(data[i]["RoomCluster"])) = 1
         /\ Cardinality(Authoritative(data[j]["RoomCluster"])) = 1
         /\ Cardinality(UsageDiagnostics(data[j]["RoomCluster"])) = 0

Min(S) == CHOOSE x \in S : \A y \in S : x <= y

Max(S) == CHOOSE x \in S : \A y \in S : x >= y

\* C2 as stated: a Room with several authoritative records gets the usage of
\* the first of them in table order.
C2_FirstAuthoritativeUsageWins ==
    UsageResolved =>
        \A i \in DOMAIN data :
            LET a == Authoritative(data[i]["RoomCluster"]) IN
            Cardinality(a) > 1 =>
                data[i]["RoomClusterUsage"] = raw[Min(a)]["UsageType"]

\* C2, amended: a Room with several authoritative records gets, on every one
\* of its records, the usage of the last of them in table order.
C2_LastAuthoritativeUsageWins ==
    UsageResolved =>
        \A i \in DOMAIN data :
            LET a == Authoritative(data[i]["RoomCluster"]) IN
            Cardinality(a) > 1 =>
                data[i]["RoomClusterUsage"] = raw[Max(a)]["UsageType"]

C2_Witness ==
    /\ UsageResolved
    /\ \E i \in DOMAIN data :
         LET a == Authoritative(data[i]["RoomCluster"]) IN
         /\ Cardinality(a) > 1
         /\ raw[Min(a)]["UsageType"] # raw[Max(a)]["UsageType"]
         /\ ~ isna(raw[i]["BelongsToIdentifier"])
         /\ data[i]["RoomClusterUsage"] = raw[Max(a)]["UsageType"]

Terminal == pc \in {"done", "aborted"}

\* C3: a Room without any authoritative record is assigned to no Zone: no
\* thermal zone and no building element is created from its records.
C3_NoZoneFromRoomWithoutUsage ==
    /\ \A j \in DOMAIN zones : \A i \in DOMAIN data :
         data[i]["Zone"] = zones[j].name =>
            Cardinality(Authoritative(data[i]["RoomCluster"])) >= 1
    /\ \A j \in DOMAIN elements : \A i \in DOMAIN data :
         data[i]["Zone"] = elements[j].zone =>
            Cardinality(Authoritative(data[i]["RoomCluster"])) >= 1

Mapped(u) == ~ isna(u) /\ u[1] \in DOMAIN usage_to_json_usage

Unmapped(u) == ~ isna(u) /\ u[1] \notin DOMAIN usage_to_json_usage

\* C4: when the resolved usage of a Room is no key of the usage mapping, the
\* run is not aborted and every Room with a mapped usage is still in the Zone
\* of its canonical category.
C4_UnmappedUsageExcludesOnlyItsRoom ==
    ( /\ Terminal
      /\ HasCol(data, "RoomClusterUsage")
      /\ \E i \in DOMAIN data : Unmapped(data[i]["RoomClusterUsage"]) )
    => /\ pc = "done"
       /\ \A i \in DOMAIN data :
            Mapped(data[i]["RoomClusterUsage"]) =>
               \E j \in DOMAIN zones :
                  zones[j].name = usage_to_json_usage[data[i]["RoomClusterUsage"][1]]

\* the sum of three areas in floating point: missing when one of them is
ExpectedInnerWallArea(r) ==
    IF isna(r["InnerWallArea"]) \/ isna(r["OuterWallArea"]) \/ isna(r["WindowArea"])
    THEN NaN
    ELSE <<r["InnerWallArea"][1] + r["OuterWallArea"][1] + r["WindowArea"][1]>>

OuterAndWindowColumns ==
    {"OuterWallOrientation", "OuterWallArea", "OuterWallConstruction",
     "WindowOrientation", "WindowArea", "WindowConstruction"}

\* C5: after the reclassification step, a record with an adjacency label has
\* inner-wall area = previous inner-wall + outer-wall + window area and its
\* outer-wall and window fields are missing; a record without adjacency label
\* is unchanged.
C5_ReclassificationOfAdjacentWalls ==
    pc # "reclassify" =>
        \A i \in DOMAIN raw :
            IF ~ isna(raw[i]["WallAdjacentTo"])
            THEN /\ data[i]["InnerWallArea"] = ExpectedInnerWallArea(raw[i])
                 /\ \A c \in OuterAndWindowColumns : isna(data[i][c])
            ELSE \A c \in DOMAIN raw[i] : data[i][c] = raw[i][c]

\* the scenario of the specification: 8 + 2 + 3 = 13
C5_Witness ==
    /\ pc # "reclassify"
    /\ \E i, j \in DOMAIN raw :
         /\ ~ isna(raw[i]["WallAdjacentTo"])
         /\ raw[i]["OuterWallArea"] = <<8>>
         /\ raw[i]["WindowArea"] = <<2>>
         /\ raw[i]["InnerWallArea"] = <<3>>
         /\ data[i]["InnerWallArea"] = <<13>>
         /\ isna(data[i]["OuterWallArea"])
         /\ isna(raw[j]["WallAdjacentTo"])
         /\ ~ isna(data[j]["OuterWallArea"])

RECURSIVE SumCol(_, _)
SumCol(S, col) ==
    IF S = {} THEN 0
    ELSE LET i == CHOOSE x \in S : TRUE IN
         nan0(data[i][col]) + SumCol(S \ {i}, col)

Members2(zone, c1, k1, c2, k2) ==
    { i \in DOMAIN data :
        data[i]["Zone"] = zone /\ data[i][c1] = k1 /\ data[i][c2] = k2 }

Members1(zone, c, k) ==
    { i \in DOMAIN data : data[i]["Zone"] = zone /\ data[i][c] = k }

\* twice the area the apportionment rule gives an element of its kind
ExpectedArea2(e) ==
    CASE e.kind = "OuterWall" ->
            2 * SumCol(Members2(e.zone, "OuterWallOrientation", e.orientation,
                                "OuterWallConstruction", e.construction),
                       "OuterWallArea")
      [] e.kind = "Window" ->
            2 * SumCol(Members2(e.zone, "WindowOrientation", e.orientation,
                                "WindowConstruction", e.construction),
                       "WindowArea")
      [] e.kind = "GroundFloor" ->
            2 * SumCol(Members2(e.zone, "IsGroundFloor", <<1>>,
                                "FloorConstruction", e.construction), "NetArea")
      [] e.kind = "Floor" ->
            SumCol(Members2(e.zone, "IsGroundFloor", <<0>>,
                            "FloorConstruction", e.construction), "NetArea")
      [] e.kind = "Rooftop" ->
            2 * SumCol(Members2(e.zone, "IsRooftop", <<1>>,
                                "CeilingConstruction", e.construction), "NetArea")
      [] e.kind = "Ceiling" ->
            SumCol(Members2(e.zone, "IsRooftop", <<0>>,
                            "CeilingConstruction", e.construction), "NetArea")
      [] e.kind = "InnerWall" ->
            SumCol(Members1(e.zone, "InnerWallConstruction", e.construction),
                   "InnerWallArea")

Kinds ==
    {"OuterWall", "Window", "GroundFloor", "Floor", "Rooftop", "Ceiling", "InnerWall"}

\* C6: InnerWall, Floor and Ceiling elements get half of the summed area of
\* their group, OuterWall, Window, GroundFloor and Rooftop elements the full
\* sum; missing areas count as 0.
C6_AreaApportionment ==
    \A j \in DOMAIN elements :
        /\ elements[j].kind \in Kinds
        /\ elements[j].area2 = ExpectedArea2(elements[j])

\* every kind is present, and one element sums the areas of two rows
C6_Witness ==
    /\ pc = "done"
    /\ \A k \in Kinds : \E j \in DOMAIN elements : elements[j].kind = k
    /\ \E j \in DOMAIN elements :
         /\ elements[j].kind = "InnerWall"
         /\ Cardinality(Members1(elements[j].zone, "InnerWallConstruction",
                                 elements[j].construction)) = 2
         /\ elements[j].area2 = 6

\* C7: every element that is created has an area greater than 0.
C7_ElementAreaPositive ==
    \A j \in DOMAIN elements : elements[j].area2 > 0

Permute(t, p) == [i \in DOMAIN t |-> t[p[i]]]

ZoneSummary(zs) ==
    { [name |-> zs[j].name, area |-> zs[j].area, volume |-> zs[j].volume] :
        j \in DOMAIN zs }

ElementSummary(es) ==
    { [zone |-> es[j].zone, kind |-> es[j].kind, orientation |-> es[j].orientation,
       construction |-> es[j].construction, area2 |-> es[j].area2] : j \in DOMAIN es }

\* the tables that a permutation of the rows of the input gives
RowOrders == { Permute(raw, p) : p \in Permutations(DOMAIN raw) }

SameResultForEveryRowOrder ==
    \A table \in RowOrders :
        LET r == import_building_from_excel(table) IN
        /\ ZoneSummary(r.zones) = ZoneSummary(zones)
        /\ ElementSummary(r.elements) = ElementSummary(elements)

\* C8 as stated: every permutation of the rows of the table gives the same
\* Zones with the same area and volume and the same elements with the same area.
C8_RowOrderInvariant == Terminal => SameResultForEveryRowOrder

\* the authoritative records of one Room all carry the same usage label
UniformAuthoritativeUsage ==
    \A i, j \in DOMAIN raw :
        ( /\ isna(raw[i]["BelongsToIdentifier"]) /\ ~ isna(raw[i]["UsageType"])
          /\ isna(raw[j]["BelongsToIdentifier"]) /\ ~ isna(raw[j]["UsageType"])
          /\ raw[i]["RoomIdentifier"] = raw[j]["RoomIdentifier"] )
        => raw[i]["UsageType"] = raw[j]["UsageType"]

\* C8, amended: for a table in which the authoritative records of each Room
\* carry the same usage label, every permutation of the rows gives the same
\* Zones with the same area and volume and the same elements with the same area.
C8_RowOrderInvariantForUniformUsage ==
    (Terminal /\ UniformAuthoritativeUsage) => SameResultForEveryRowOrder

C8_Witness ==
    /\ pc = "done"
    /\ UniformAuthoritativeUsage
    /\ Len(raw) = 2
    /\ raw[1] # raw[2]
    /\ Len(zones) = 1
    /\ zones[1].area = 10 /\ zones[1].volume = 30
    /\ Len(elements) > 2
    /\ SameResultForEveryRowOrder

\* the year bands of the retrofit rule, U-values in tenths; the last band is
\* open-ended
Bands ==
    { [lo |-> 1977, hi |-> <<1981>>, u |-> 8], [lo |-> 1982, hi |-> <<1994>>, u |-> 7],
      [lo |-> 1995, hi |-> <<2001>>, u |-> 5], [lo |-> 2002, hi |-> <<2008>>, u |-> 4],
      [lo |-> 2009, hi |-> <<2013>>, u |-> 3], [lo |-> 2014, hi |-> NaN, u |-> 3] }

InBand(y, b) == b.lo <= y /\ (isna(b.hi) \/ y <= b.hi[1])

\* C9: for a retrofit year of 1977 or later, retrofit_wall passes to the
\* insulation solve the target U-value of the one band that contains the
\* year, and the solved layer carries that target.
C9_TargetUOfTheYearBand ==
    \A n \in DOMAIN calls :
        calls[n].year >= 1977 =>
            /\ Cardinality({b \in Bands : InBand(calls[n].year, b)}) = 1
            /\ calls[n].outcome = "ok"
            /\ ~ isna(calls[n].insulation)
            /\ \A b \in Bands :
                 InBand(calls[n].year, b) =>
                    calls[n].insulation[1].calc_u = <<b.u>>
            /\ calls[n].insulation[1].year_of_retrofit = calls[n].year

\* the last year of the second band
C9_Witness ==
    \E n \in DOMAIN calls :
        /\ calls[n].year = 1994
        /\ calls[n].outcome = "ok"
        /\ calls[n].insulation[1].calc_u = <<7>>
        /\ gf.layer # <<>>
        /\ gf.layer[Len(gf.layer)].target_u = 7

ZonesCreated == { zones[j].name : j \in DOMAIN zones }

\* the (flag, construction) groups of a zone: the pairs of present values
FlagGroupsOf(zone, k) ==
    { <<data[i][k.flagcol], data[i][k.ccol]>> :
        i \in { x \in DOMAIN data :
                  /\ data[x]["Zone"] = zone
                  /\ ~ isna(data[x][k.flagcol])
                  /\ ~ isna(data[x][k.ccol]) } }

GroupNetArea(zone, k, g) ==
    SumCol(Members2(zone, k.flagcol, g[1], k.ccol, g[2]), "NetArea")

\* groups with a nonzero area whose flag is neither 0 nor 1
OffendingFlagGroups(k) ==
    { <<z, g>> \in UNION { {z} \X FlagGroupsOf(z, k) : z \in ZonesCreated } :
        g[1] \notin {<<0>>, <<1>>} /\ GroupNetArea(z, k, g) # 0 }

\* groups with a nonzero area whose flag is 0 or 1
RegularFlagGroups(k) ==
    { <<z, g>> \in UNION { {z} \X FlagGroupsOf(z, k) : z \in ZonesCreated } :
        g[1] \in {<<0>>, <<1>>} /\ GroupNetArea(z, k, g) # 0 }

FlagDiagnostics(k) ==
    { j \in DOMAIN diags : diags[j].code = "flag" /\ diags[j].subject = <<k.flagcol>> }

FlagElements(k) ==
    { j \in DOMAIN elements : elements[j].kind \in {k.fullKind, k.halfKind} }

\* C11: a (ground-floor flag, floor construction) group with a nonzero area
\* whose flag is neither 0 nor 1 gets a diagnostic and no GroundFloor or Floor
\* element: the diagnostics are as many as such groups, and every GroundFloor
\* or Floor element stems from a group with flag 1 or 0, one element per such
\* group. The same for the rooftop flag with Rooftop and Ceiling elements.
C11_FlagOutsideZeroOneGivesNoElement ==
    pc = "done" =>
        \A k \in {FloorKinds, CeilingKinds} :
            /\ Cardinality(FlagDiagnostics(k)) = Cardinality(OffendingFlagGroups(k))
            /\ Cardinality(FlagElements(k)) = Cardinality(RegularFlagGroups(k))
            /\ \A j \in FlagElements(k) :
                 <<elements[j].zone,
                   <<IF elements[j].kind = k.fullKind THEN <<1>> ELSE <<0>>,
                     elements[j].construction>>>> \in RegularFlagGroups(k)

\* a zone with a flag 2 group next to a flag 1 group: only the latter gives
\* an element
C11_Witness ==
    /\ pc = "done"
    /\ \E z \in ZonesCreated :
         /\ <<z, <<<<2>>, <<"heavy">>>>>> \in OffendingFlagGroups(FloorKinds)
         /\ <<z, <<<<1>>, <<"heavy">>>>>> \in RegularFlagGroups(FloorKinds)
         /\ <<z, <<<<2>>, <<"heavy">>>>>> \in OffendingFlagGroups(CeilingKinds)
         /\ Cardinality({ j \in FlagElements(FloorKinds) : elements[j].zone = z }) = 1
    /\ FlagDiagnostics(FloorKinds) # {}
    /\ FlagDiagnostics(CeilingKinds) # {}


\* the net-area check of zoning_example has run
NetAreaChecked == pc \in {"resolve_usage", "map_usage", "zones", "done", "aborted"}

NetAreaDiagnostics(i) ==
    { j \in DOMAIN diags : diags[j].code = "net_area_zero" /\ diags[j].subject = <<i>> }

\* C12: zoning_example emits the net-area diagnostic for every record that
\* carries a usage label and whose net area is zero or missing, and for no
\* record whose net area is a nonzero number.
C12_NetAreaZeroOrMissingIsReported ==
    NetAreaChecked =>
        \A i \in DOMAIN raw :
            /\ ( /\ ~ isna(raw[i]["UsageType"])
                 /\ (raw[i]["NetArea"] = <<0>> \/ isna(raw[i]["NetArea"])) )
               => NetAreaDiagnostics(i) # {}
            /\ (~ isna(raw[i]["NetArea"]) /\ raw[i]["NetArea"] # <<0>>)
               => NetAreaDiagnostics(i) = {}


\* the member records of a zone
ZoneMembers(name) == { i \in DOMAIN data : data[i]["Zone"] = name }

\* net area times room height of one record; 0 when one of them is missing
RecordVolume(r) ==
    IF isna(r["NetArea"]) \/ isna(r["HeatedRoomHeight"]) THEN 0
    ELSE r["NetArea"][1] * r["HeatedRoomHeight"][1]

RECURSIVE SumVolume(_)
SumVolume(S) ==
    IF S = {} THEN 0
    ELSE LET i == CHOOSE x \in S : TRUE IN
         RecordVolume(data[i]) + SumVolume(S \ {i})

\* C13: the area of every zone that is created is the sum of the net areas of
\* its member records and its volume the sum of net area times room height
\* over them; a record with a missing net area or height adds 0 to that sum.
C13_ZoneAreaAndVolumeAreSums ==
    \A j \in DOMAIN zones :
        /\ zones[j].area = SumCol(ZoneMembers(zones[j].name), "NetArea")
        /\ zones[j].volume = SumVolume(ZoneMembers(zones[j].name))

\* two records in one zone, one of them without room height
C13_Witness ==
    /\ pc = "done"
    /\ \E j \in DOMAIN zones :
         /\ Cardinality(ZoneMembers(zones[j].name)) = 2
         /\ \E i \in ZoneMembers(zones[j].name) :
              isna(data[i]["HeatedRoomHeight"]) /\ data[i]["NetArea"] = <<4>>
         /\ zones[j].area = 8
         /\ zones[j].volume = 12


\* the records of the group an element was created from
ElementRows(e) ==
    CASE e.kind = "OuterWall" ->
            Members2(e.zone, "OuterWallOrientation", e.orientation,
                     "OuterWallConstruction", e.construction)
      [] e.kind = "Window" ->
            Members2(e.zone, "WindowOrientation", e.orientation,
                     "WindowConstruction", e.construction)
      [] e.kind = "GroundFloor" ->
            Members2(e.zone, "IsGroundFloor", <<1>>, "FloorConstruction", e.construction)
      [] e.kind = "Floor" ->
            Members2(e.zone, "IsGroundFloor", <<0>>, "FloorConstruction", e.construction)
      [] e.kind = "Rooftop" ->
            Members2(e.zone, "IsRooftop", <<1>>, "CeilingConstruction", e.construction)
      [] e.kind = "Ceiling" ->
            Members2(e.zone, "IsRooftop", <<0>>, "CeilingConstruction", e.construction)
      [] e.kind = "InnerWall" ->
            Members1(e.zone, "InnerWallConstruction", e.construction)

\* the construction diagnostics that name the zone, the element and its rows
ConstructionDiagnostics(e) ==
    { j \in DOMAIN diags :
        /\ diags[j].code = "construction"
        /\ diags[j].zone = e.zone
        /\ diags[j].subject[1] = e.name
        /\ diags[j].rows = ElementRows(e) }

\* C14: an element whose construction is not in the catalog is retained, the
\* run goes on, and a diagnostic names its zone, its kind, the construction
\* name that was looked up for it and the rows of its group.
C14_LookupMissIsReportedInFull ==
    \A j \in DOMAIN elements :
        isna(elements[j].construction_type) =>
            /\ pc # "aborted"
            /\ \E d \in ConstructionDiagnostics(elements[j]) :
                 diags[d].subject[2] = elements[j].construction


\* zoning_example has returned the zoned table
ZoningReturned == pc \in {"zones", "done", "aborted"} /\ HasCol(data, "Zone")

\* the records with a back-reference to a Room that has exactly one
\* authoritative record, and that one with a mapped usage label
InheritingRecords ==
    { i \in DOMAIN raw :
        /\ ~ isna(raw[i]["BelongsToIdentifier"])
        /\ Cardinality(Authoritative(raw[i]["BelongsToIdentifier"])) = 1
        /\ \A p \in Authoritative(raw[i]["BelongsToIdentifier"]) :
             Mapped(raw[p]["UsageType"]) }

OuterWallsOf(zone, r) ==
    { j \in DOMAIN elements :
        /\ elements[j].kind = "OuterWall"
        /\ elements[j].zone = zone
        /\ elements[j].orientation = r["OuterWallOrientation"]
        /\ elements[j].construction = r["OuterWallConstruction"] }

\* C15: a record with a back-reference to a Room with exactly one authoritative
\* record of mapped usage gets the canonical usage and the Zone of that record,
\* and the Room gets no usage diagnostic; when the run is done there is one such
\* Zone, and each (orientation, construction) of the record and of its parent
\* with a positive area has one OuterWall element that sums the rows' areas.
C15_BackReferenceInheritsUsageAndZone ==
    ZoningReturned =>
        \A i \in InheritingRecords :
            \A p \in Authoritative(raw[i]["BelongsToIdentifier"]) :
                /\ data[i]["UsageType_Teaser"] = usage_to_json_usage[raw[p]["UsageType"][1]]
                /\ data[i]["UsageType_Teaser"] = data[p]["UsageType_Teaser"]
                /\ data[i]["Zone"] = data[p]["Zone"]
                /\ UsageDiagnostics(raw[i]["BelongsToIdentifier"]) = {}
                /\ pc = "done" =>
                     /\ Cardinality({ j \in DOMAIN zones :
                                        zones[j].name = data[p]["Zone"] }) = 1
                     /\ \A r \in {i, p} :
                          ( /\ ~ isna(data[r]["OuterWallOrientation"])
                            /\ ~ IsStr(data[r]["OuterWallOrientation"])
                            /\ ~ isna(data[r]["OuterWallConstruction"])
                            /\ nan0(data[r]["OuterWallArea"]) > 0 )
                          => /\ Cardinality(OuterWallsOf(data[p]["Zone"], data[r])) = 1
                             /\ \A j \in OuterWallsOf(data[p]["Zone"], data[r]) :
                                  /\ elements[j].area2 = ExpectedArea2(elements[j])
                                  /\ elements[j].area2 >= 2 * data[r]["OuterWallArea"][1]

\* a room with a second orientation: one zone, outer walls of area 8 and 5
C15_Witness ==
    /\ pc = "done"
    /\ Len(raw) = 2
    /\ InheritingRecords = {2}
    /\ Len(zones) = 1
    /\ data[2]["Zone"] = "Meeting, Conference, seminar"
    /\ { elements[j].area2 : j \in { x \in DOMAIN elements :
                                        elements[x].kind = "OuterWall" } } = {16, 10}
    /\ \A j \in DOMAIN diags : diags[j].code # "cluster_usage"


\* record x holds a back-reference to the identifier of record y
RefersTo(x, y) ==
    /\ ~ isna(raw[x]["BelongsToIdentifier"])
    /\ raw[x]["BelongsToIdentifier"] = raw[y]["RoomIdentifier"]

\* the chains c -> b -> a that end in a room record a
Chains ==
    { ch \in (DOMAIN raw) \X (DOMAIN raw) \X (DOMAIN raw) :
        /\ isna(raw[ch[1]]["BelongsToIdentifier"])
        /\ RefersTo(ch[2], ch[1])
        /\ RefersTo(ch[3], ch[2]) }

ResolvedUsage(i) ==
    IF HasCol(data, "RoomClusterUsage") THEN data[i]["RoomClusterUsage"] ELSE NaN

\* C16 as stated: the records of a chain of back-references have the cluster
\* key and the resolved usage of the room record at the root of the chain.
C16_ChainSharesRootRoom ==
    UsageResolved =>
        \A ch \in Chains :
            \A x \in {ch[2], ch[3]} :
                /\ data[x]["RoomCluster"] = data[ch[1]]["RoomCluster"]
                /\ ResolvedUsage(x) = ResolvedUsage(ch[1])

\* C16, amended: the cluster key of a record is the identifier its own
\* back-reference names, else its own identifier, and records with one key
\* have one resolved usage; so a record that refers to a room record shares
\* key and usage with it, and a record that refers to a record which refers
\* on has the identifier of that record as key, not the key of the root.
C16_ClusterKeyIsDirectBackReference ==
    UsageResolved =>
        /\ \A i \in DOMAIN raw :
             data[i]["RoomCluster"] =
                IF isna(raw[i]["BelongsToIdentifier"]) THEN raw[i]["RoomIdentifier"]
                ELSE raw[i]["BelongsToIdentifier"]
        /\ \A i, j \in DOMAIN raw :
             data[i]["RoomCluster"] = data[j]["RoomCluster"] =>
                ResolvedUsage(i) = ResolvedUsage(j)
        /\ \A ch \in Chains :
             /\ data[ch[2]]["RoomCluster"] = data[ch[1]]["RoomCluster"]
             /\ ResolvedUsage(ch[2]) = ResolvedUsage(ch[1])
             /\ data[ch[3]]["RoomCluster"] = raw[ch[2]]["RoomIdentifier"]

\* R3 -> R2 -> R1: the second record has the usage of the room, the third
\* is keyed R2 and has none
C16_Witness ==
    /\ UsageResolved
    /\ \E ch \in Chains :
         /\ ResolvedUsage(ch[1]) = <<"Office">>
         /\ ResolvedUsage(ch[2]) = <<"Office">>
         /\ data[ch[2]]["RoomCluster"] = <<"R1">>
         /\ data[ch[3]]["RoomCluster"] = <<"R2">>
         /\ isna(ResolvedUsage(ch[3]))


\* the columns of the two kinds that are grouped by orientation
WallKinds ==
    { [kind |-> "OuterWall", ocol |-> "OuterWallOrientation",
       acol |-> "OuterWallArea", ccol |-> "OuterWallConstruction"],
      [kind |-> "Window", ocol |-> "WindowOrientation",
       acol |-> "WindowArea", ccol |-> "WindowConstruction"] }

\* the (orientation, construction) pairs present in the records of a zone
WallPairsOf(zone, w) ==
    { <<data[i][w.ocol], data[i][w.ccol]>> :
        i \in { x \in ZoneMembers(zone) :
                  ~ isna(data[x][w.ocol]) /\ ~ isna(data[x][w.ccol]) } }

WallElements(zone, w, g) ==
    { j \in DOMAIN elements :
        /\ elements[j].kind = w.kind
        /\ elements[j].zone = zone
        /\ elements[j].orientation = g[1]
        /\ elements[j].construction = g[2] }

OrientationDiagnostics(zone, w, g) ==
    { j \in DOMAIN diags :
        /\ diags[j].code = "orientation"
        /\ diags[j].zone = zone
        /\ diags[j].subject = <<w.kind, g[1]>> }

WallPairArea(zone, w, g) == SumCol(Members2(zone, w.ocol, g[1], w.ccol, g[2]), w.acol)

\* C17: for every zone and (orientation, construction) pair present in its
\* records there is one OuterWall element when the orientation is a number and
\* the summed outer-wall area of the pair is greater than 0, and none
\* otherwise; a pair with a text orientation gets a diagnostic; every OuterWall
\* element stems from such a pair. The same for Window elements.
C17_WallElementIffNumericAndPositive ==
    pc = "done" =>
        \A w \in WallKinds :
            /\ \A z \in ZonesCreated : \A g \in WallPairsOf(z, w) :
                 /\ Cardinality(WallElements(z, w, g)) =
                       IF ~ IsStr(g[1]) /\ WallPairArea(z, w, g) > 0 THEN 1 ELSE 0
                 /\ IsStr(g[1]) => OrientationDiagnostics(z, w, g) # {}
            /\ \A j \in DOMAIN elements :
                 elements[j].kind = w.kind =>
                    <<elements[j].orientation, elements[j].construction>>
                        \in WallPairsOf(elements[j].zone, w)

\* one zone with a text orientation (diagnostic, no element) and a numeric
\* orientation of positive area (one element), for walls and for windows
C17_Witness ==
    /\ pc = "done"
    /\ \E z \in ZonesCreated : \A w \in WallKinds :
         /\ \E g \in WallPairsOf(z, w) :
              /\ IsStr(g[1])
              /\ WallPairArea(z, w, g) > 0
              /\ WallElements(z, w, g) = {}
              /\ OrientationDiagnostics(z, w, g) # {}
         /\ \E g \in WallPairsOf(z, w) :
              /\ ~ IsStr(g[1])
              /\ WallPairArea(z, w, g) > 0
              /\ Cardinality(WallElements(z, w, g)) = 1


\* C18: for every record with an adjacency label, with a missing area counted
\* as 0, the inner-wall area after the reclassification is the sum of the
\* inner-wall, outer-wall and window areas before it, hence not less than the
\* inner-wall area before it.
C18_ReclassificationConservesArea ==
    pc \notin {"reclassify", "idle"} =>
        \A i \in DOMAIN raw :
            ~ isna(raw[i]["WallAdjacentTo"]) =>
                /\ nan0(data[i]["InnerWallArea"]) =
                      nan0(raw[i]["InnerWallArea"]) + nan0(raw[i]["OuterWallArea"])
                      + nan0(raw[i]["WindowArea"])
                /\ nan0(data[i]["InnerWallArea"]) >= nan0(raw[i]["InnerWallArea"])

====
